---- MODULE Spec2Model ----
(***************************************************************************)
(* Model of the inefficient-prover crate (src/inefficient-prover/src/      *)
(* prover.rs): Setup::new, Prover::prove, Prover::create_opening_proof and *)
(* Verifier::verify_opening, with the library primitives they call.        *)
(*                                                                         *)
(* Abstraction of the external math library (arkworks).  The scalar field  *)
(* Fr is the prime field Z_fr for a small prime fr fixed by Init.  G1, G2  *)
(* and the pairing target group are cyclic groups of order fr; an element  *)
(* is represented by its discrete logarithm in 0..fr-1 with respect to a   *)
(* fixed canonical generator, so the identity is 0, the group operation is *)
(* addition mod fr, scalar multiplication is multiplication mod fr and the *)
(* pairing of a and b is a*b mod fr (bilinear and non-degenerate).         *)
(* Vectors are 1-indexed sequences: index i of the code is i+1 here.       *)
(***************************************************************************)
EXTENDS Integers, Sequences, FiniteSets, TLC

VARIABLES
    fr,          \* order of the scalar field Fr (and of G1, G2, GT)
    rng,         \* what the fixed-seed generator test_rng() yields (ghost)
    pc,          \* position of the caller: which call returned last
    tau,         \* the secret scalar local to Setup::new (ghost)
    drawn_at,    \* generator state each random scalar was drawn from (ghost)
    setup,       \* the Setup returned by Setup::new
    commitment,  \* first component returned by prove()
    evals,       \* polynomial_evals passed to create_opening_proof
    eval_point,  \* point passed to create_opening_proof
    opening,     \* the OpeningProof returned by create_opening_proof
    submitted,   \* the OpeningProof handed to verify_opening
    result,      \* what verify_opening returned
    pw,          \* frame of compute_powers_parallel
    pv,          \* frame of the prove() that returned last: x_values, f_values (ghost)
    fj,          \* frame of a parallel section: its tasks and the output being collected
    mm           \* the ModuloMachine and the tick that returned last

vars == <<fr, rng, pc, tau, drawn_at, setup, commitment, evals, eval_point, opening, submitted, result, pw,
          pv, fj, mm>>

\* Field orders used for Fr: 5 has two-adicity 2 (domains of size 1, 2, 4);
\* 7 has a multiplicative group whose order, 6, does not divide the window
\* size 256, so that tau^256 is not forced to be one.
ProtocolField == 5
PowersField == 7

\* Bounds of the model.
MaxLogN == 2
MaxEvalsLen == 3
MaxSmallCount == 6
MaxOver == 2

None == "None"

-----------------------------------------------------------------------------
(* Fr *)

FrEl == 0 .. (fr - 1)
FrZero == 0
FrOne == 1 % fr
FrAdd(a, b) == (a + b) % fr
FrSub(a, b) == (a + fr - b) % fr
FrNeg(a) == (fr - a) % fr
FrMul(a, b) == (a * b) % fr
FrInv(a) == CHOOSE x \in FrEl : FrMul(a, x) = FrOne

\* Groups, by discrete logarithm.
G1El == 0 .. (fr - 1)
G1Zero == 0
G1Add(p, q) == (p + q) % fr
G1Sub(p, q) == (p + fr - q) % fr
G1Mul(p, s) == (p * s) % fr
into_affine(p) == p % fr
into_group(p) == p % fr
pairing(p, q) == (p * q) % fr

\* Sum of a sequence of elements of Z_fr.
RECURSIVE SumSeq(_)
SumSeq(s) == IF s = <<>> THEN 0 ELSE (Head(s) + SumSeq(Tail(s))) % fr

\* base multiplied by itself e times, in Z_fr.
RECURSIVE FrPow(_, _)
FrPow(base, e) == IF e = 0 THEN FrOne ELSE FrMul(base, FrPow(base, e - 1))

-----------------------------------------------------------------------------
(* Radix2EvaluationDomain *)

RECURSIVE NextPow2From(_, _)
NextPow2From(k, size) == IF size >= k THEN size ELSE NextPow2From(k, 2 * size)

\* The size of the domain for num_coeffs coefficients: the next power of two.
DomainSize(num_coeffs) == NextPow2From(num_coeffs, 1)

\* Radix2EvaluationDomain::new returns None when the size exceeds the 2-adic
\* part of fr - 1.
DomainSupported(num_coeffs) == (fr - 1) % DomainSize(num_coeffs) = 0

\* The multiplicative order of a nonzero element.
OrderOf(a) == CHOOSE k \in 1 .. (fr - 1) :
                 /\ FrPow(a, k) = FrOne
                 /\ \A j \in 1 .. (k - 1) : FrPow(a, j) # FrOne

\* group_gen of the domain of the given size: a primitive size-th root of unity.
GroupGen(size) == CHOOSE w \in 1 .. (fr - 1) : OrderOf(w) = size

DomainElements(size) == { FrPow(GroupGen(size), i) : i \in 0 .. (size - 1) }

\* Vec::resize(size, zero)
Resize(v, size) == [i \in 1 .. size |-> IF i <= Len(v) THEN v[i] ELSE 0]

\* Forward transform of a coefficient vector: out[i] = sum_j v[j] * w^(i*j).
fft_in_place(v, size) ==
    LET w == GroupGen(size)
        a == Resize(v, size)
    IN  [i \in 1 .. size |->
            SumSeq([j \in 1 .. size |-> FrMul(a[j], FrPow(w, ((i - 1) * (j - 1)) % size))])]

\* Inverse transform: out[j] = size^-1 * sum_i v[i] * w^(-i*j).  The same
\* linear map acts on vectors of group elements (DomainCoeff).
ifft_in_place(v, size) ==
    LET w == GroupGen(size)
        a == Resize(v, size)
        size_inv == FrInv(size % fr)
    IN  [j \in 1 .. size |->
            FrMul(size_inv,
                  SumSeq([i \in 1 .. size |->
                            FrMul(a[i], FrPow(w, (size - (((i - 1) * (j - 1)) % size)) % size))]))]

-----------------------------------------------------------------------------
(* DensePolynomial: coefficient sequences without trailing zeros *)

RECURSIVE from_coefficients_vec(_)
from_coefficients_vec(c) ==
    IF c = <<>> THEN <<>>
    ELSE IF c[Len(c)] = 0 THEN from_coefficients_vec(SubSeq(c, 1, Len(c) - 1))
    ELSE c

PolyIsZero(p) == p = <<>>
PolyDegree(p) == IF p = <<>> THEN 0 ELSE Len(p) - 1
Coeff(p, i) == IF i <= Len(p) THEN p[i] ELSE 0

\* Horner evaluation.
RECURSIVE HornerFrom(_, _, _)
HornerFrom(p, k, x) == IF k > Len(p) THEN 0 ELSE FrAdd(p[k], FrMul(x, HornerFrom(p, k + 1, x)))

evaluate(p, x) == IF PolyIsZero(p) THEN FrZero ELSE HornerFrom(p, 1, x)

PolySub(p, q) ==
    LET m == IF Len(p) >= Len(q) THEN Len(p) ELSE Len(q)
    IN  from_coefficients_vec([i \in 1 .. m |-> FrSub(Coeff(p, i), Coeff(q, i))])

\* Schoolbook product, used to state the division identity.
PolyMul(p, q) ==
    IF p = <<>> \/ q = <<>> THEN <<>>
    ELSE from_coefficients_vec(
            [k \in 1 .. (Len(p) + Len(q) - 1) |->
                SumSeq([i \in 1 .. Len(p) |->
                          IF k - i + 1 >= 1 /\ k - i + 1 <= Len(q)
                          THEN FrMul(p[i], q[k - i + 1]) ELSE 0])])

\* The long-division loop of divide_with_q_and_r: quotient and remainder are
\* updated while the remainder is nonzero and of degree >= deg(divisor).
RECURSIVE DivLoop(_, _, _)
DivLoop(quotient, remainder, divisor) ==
    IF PolyIsZero(remainder) \/ PolyDegree(remainder) < PolyDegree(divisor)
    THEN [q |-> from_coefficients_vec(quotient), r |-> remainder]
    ELSE LET divisor_leading_inv == FrInv(divisor[Len(divisor)])
             cur_q_coeff == FrMul(remainder[Len(remainder)], divisor_leading_inv)
             cur_q_degree == PolyDegree(remainder) - PolyDegree(divisor)
             next_r == [k \in 1 .. Len(remainder) |->
                          IF k - cur_q_degree >= 1 /\ k - cur_q_degree <= Len(divisor)
                          THEN FrSub(remainder[k], FrMul(cur_q_coeff, divisor[k - cur_q_degree]))
                          ELSE remainder[k]]
         IN  DivLoop([quotient EXCEPT ![cur_q_degree + 1] = cur_q_coeff],
                     from_coefficients_vec(next_r), divisor)

divide_with_q_and_r(p, divisor) ==
    IF PolyIsZero(p) THEN [q |-> <<>>, r |-> <<>>]
    ELSE IF PolyDegree(p) < PolyDegree(divisor) THEN [q |-> <<>>, r |-> p]
    ELSE DivLoop([k \in 1 .. (PolyDegree(p) - PolyDegree(divisor) + 1) |-> 0], p, divisor)

\* The Div operator of DensePolynomial keeps the quotient only.
PolyDiv(p, divisor) == divide_with_q_and_r(p, divisor).q

-----------------------------------------------------------------------------
(* Setup::compute_powers_parallel *)

SeqThreshold == 1024
WindowSize == 256

\* num_windows = (count + window_size - 1) / window_size
NumWindows(count) == (count + WindowSize - 1) \div WindowSize

\* Body of the sequential loop: powers.push(powers[i - 1] * tau).
SeqBody(powers, i, t) == Append(powers, FrMul(powers[i], t))

\* Body of the tau_window loop: result *= tau.
TauWindowBody(r, t) == FrMul(r, t)

\* Body of the window_bases loop: push(window_bases[i - 1] * tau_window).
BasesBody(window_bases, i, tau_window) == Append(window_bases, FrMul(window_bases[i], tau_window))

\* The inner loop of the parallel closure: tau_offset *= tau, offset times.
\* Iterations k .. stop-1 of that loop.  (The test on tau_offset is never
\* true: it makes TLC evaluate the accumulator at every iteration instead of
\* building a chain of suspended products.)
RECURSIVE TauOffsetLoop(_, _, _, _)
TauOffsetLoop(tau_offset, k, stop, t) ==
    IF k >= stop \/ tau_offset < 0 THEN tau_offset
    ELSE TauOffsetLoop(FrMul(tau_offset, t), k + 1, stop, t)

\* The loop run in stretches of 16 iterations, which bounds the depth of the
\* evaluation; the value is that of the loop run in one go.
RECURSIVE TauOffsetFrom(_, _, _, _)
TauOffsetFrom(tau_offset, k, offset, t) ==
    IF k >= offset \/ tau_offset < 0 THEN tau_offset
    ELSE LET stop == IF k + 16 <= offset THEN k + 16 ELSE offset
         IN  TauOffsetFrom(TauOffsetLoop(tau_offset, k, stop, t), stop, offset, t)

TauOffset(t, offset) == TauOffsetFrom(FrOne, 0, offset, t)

WindowIdx(i) == i \div WindowSize

\* Mutant of PowerAt: the window base is forgotten.
PowerAt_NoBase(i, t, window_bases) == TauOffset(t, i % WindowSize)

\* The parallel closure applied to index i.
PowerAt(i, t, window_bases) ==
    LET window_idx == WindowIdx(i)
        offset == i % WindowSize
        base == window_bases[window_idx + 1]
    IN  IF offset = 0 THEN base ELSE FrMul(base, TauOffset(t, offset))

\* The three loops run to completion (used where the count is small enough
\* for the recursion; the frame pw below runs them one iteration per step).
RECURSIVE SeqLoop(_, _, _, _)
SeqLoop(powers, i, count, t) ==
    IF i >= count THEN powers ELSE SeqLoop(SeqBody(powers, i, t), i + 1, count, t)

RECURSIVE TauWindowLoop(_, _, _)
TauWindowLoop(r, k, t) == IF k >= WindowSize THEN r ELSE TauWindowLoop(TauWindowBody(r, t), k + 1, t)

RECURSIVE BasesLoop(_, _, _, _)
BasesLoop(window_bases, i, num_windows, tau_window) ==
    IF i >= num_windows THEN window_bases
    ELSE BasesLoop(BasesBody(window_bases, i, tau_window), i + 1, num_windows, tau_window)

compute_powers_parallel(t, count) ==
    IF count <= 1 THEN <<FrOne>>
    ELSE IF count <= SeqThreshold THEN SeqLoop(<<FrOne>>, 1, count, t)
    ELSE LET window_bases == BasesLoop(<<FrOne>>, 1, NumWindows(count), TauWindowLoop(FrOne, 0, t))
         IN  [k \in 1 .. count |-> PowerAt(k - 1, t, window_bases)]

\* The frame of one call, stepped loop iteration by loop iteration.
NoFrame == [pc |-> "none"]

PowerCounts ==
    (0 .. MaxSmallCount)
        \cup { SeqThreshold + k : k \in 0 .. MaxOver }
        \cup { SeqThreshold + WindowSize - 1 + k : k \in 0 .. MaxOver }

PowEnter ==
    /\ pw.pc = "call"
    /\ pw' = IF pw.count <= 1
             THEN [pw EXCEPT !.pc = "done", !.powers = <<FrOne>>]
             ELSE IF pw.count <= SeqThreshold
             THEN [pw EXCEPT !.pc = "seq", !.powers = <<FrOne>>, !.i = 1]
             ELSE [pw EXCEPT !.pc = "tau_window", !.tau_window = FrOne, !.i = 0]
    /\ UNCHANGED <<fr, rng, pc, tau, drawn_at, setup, commitment, evals, eval_point, opening, submitted, result,
                   pv, fj, mm>>

PowSeqStep ==
    /\ pw.pc = "seq"
    /\ pw' = IF pw.i < pw.count
             THEN [pw EXCEPT !.powers = SeqBody(pw.powers, pw.i, pw.tau), !.i = pw.i + 1]
             ELSE [pw EXCEPT !.pc = "done"]
    /\ UNCHANGED <<fr, rng, pc, tau, drawn_at, setup, commitment, evals, eval_point, opening, submitted, result,
                   pv, fj, mm>>

PowTauWindowStep ==
    /\ pw.pc = "tau_window"
    /\ pw' = IF pw.i < WindowSize
             THEN [pw EXCEPT !.tau_window = TauWindowBody(pw.tau_window, pw.tau), !.i = pw.i + 1]
             ELSE [pw EXCEPT !.pc = "bases", !.window_bases = <<FrOne>>, !.i = 1]
    /\ UNCHANGED <<fr, rng, pc, tau, drawn_at, setup, commitment, evals, eval_point, opening, submitted, result,
                   pv, fj, mm>>

PowBasesStep ==
    /\ pw.pc = "bases"
    /\ pw' = IF pw.i < NumWindows(pw.count)
             THEN [pw EXCEPT !.window_bases = BasesBody(pw.window_bases, pw.i, pw.tau_window),
                             !.i = pw.i + 1]
             ELSE [pw EXCEPT !.pc = "map"]
    /\ UNCHANGED <<fr, rng, pc, tau, drawn_at, setup, commitment, evals, eval_point, opening, submitted, result,
                   pv, fj, mm>>

PowMap ==
    /\ pw.pc = "map"
    /\ pw' = [pw EXCEPT !.pc = "done",
                        !.powers = [k \in 1 .. pw.count |-> PowerAt(k - 1, pw.tau, pw.window_bases)]]
    /\ UNCHANGED <<fr, rng, pc, tau, drawn_at, setup, commitment, evals, eval_point, opening, submitted, result,
                   pv, fj, mm>>

InitPowers ==
    /\ fr = PowersField
    /\ rng = None
    /\ pc = "powers"
    /\ tau = None /\ drawn_at = None /\ setup = None /\ commitment = None
    /\ evals = None /\ eval_point = None /\ opening = None /\ submitted = None /\ result = None
    /\ \E t \in FrEl, count \in PowerCounts :
          pw = [pc |-> "call", tau |-> t, count |-> count, i |-> 0, powers |-> <<>>,
                tau_window |-> 0, window_bases |-> <<>>]
    /\ pv = NoFrame /\ fj = NoFrame /\ mm = NoFrame

NextPowers == PowEnter \/ PowSeqStep \/ PowTauWindowStep \/ PowBasesStep \/ PowMap

SpecPowers == InitPowers /\ [][NextPowers]_vars

-----------------------------------------------------------------------------
(* Config *)
(* A Config is one of the data model: two_n = 2 * 2^log_n is representable  *)
(* in usize.  The scalar field's TWO_ADICITY is 32, so Setup::new panics at *)
(* the domain for every log_n from 32 to 62; log_n >= 63, where 1 << log_n  *)
(* or 2 * n leaves usize, is outside the Configs drawn here.                *)

n(config) == 2 ^ config.log_n
two_n(config) == 2 * n(config)

(* test_rng: a generator with a fixed seed.  A fresh instance is in state 0 *)
(* and every draw advances the state by one; what a draw yields is a        *)
(* function of the state it is made in.  rng.first is the scalar a fresh    *)
(* instance yields first; rng.g1 and rng.g2 are the group elements drawn    *)
(* next by Setup::new.                                                      *)
test_rng == 0
FrRand(state) == IF state = 0 THEN rng.first ELSE None

(* VariableBaseMSM::msm: Err on a length mismatch.  A Result is a sequence: *)
(* <<v>> is Ok(v) and <<>> is Err.                                          *)
msm(bases, scalars) ==
    IF Len(bases) # Len(scalars) THEN <<>>
    ELSE <<SumSeq([i \in 1 .. Len(bases) |-> G1Mul(bases[i], scalars[i])])>>

IsErr(r) == r = <<>>
unwrap(r) == r[1]

efficient_msm(bases, scalars) == msm(bases, scalars)

-----------------------------------------------------------------------------
(* Setup::new *)

\* Mutant of monomial_to_lagrange: the monomial SRS is copied, no basis change.
monomial_to_lagrange_Identity(srs_monomial, size) == Resize(srs_monomial, size)
\* Mutant of monomial_to_lagrange: the forward transform instead of the inverse.
monomial_to_lagrange_Forward(srs_monomial, size) == fft_in_place(srs_monomial, size)

monomial_to_lagrange(srs_monomial, size) == ifft_in_place(srs_monomial, size)

\* step 6: every parallel unit draws from its own fresh test_rng()
CEvalState(i) == test_rng
\* Mutant of c_eval_of: one scalar per witness entry (n) instead of two_n.
c_eval_of_n(count) == [i \in 1 .. (count \div 2) |-> FrRand(CEvalState(i))]

c_eval_of(count) == [i \in 1 .. count |-> FrRand(CEvalState(i))]

SrsMonomial(g1, tau_powers) == [i \in 1 .. Len(tau_powers) |-> G1Mul(g1, tau_powers[i])]

SetupNew(config) ==
    LET t == FrRand(test_rng)
        tau_powers == compute_powers_parallel(t, two_n(config))
        g1 == rng.g1
        g2 == rng.g2
        srs_monomial == SrsMonomial(g1, tau_powers)
        srs_monomial_g1 == [i \in 1 .. Len(srs_monomial) |-> into_affine(srs_monomial[i])]
        srs_lagrange == monomial_to_lagrange(srs_monomial, DomainSize(two_n(config)))
    IN  [srs_lagrange_g1 |-> srs_lagrange,
         srs_monomial_g1 |-> srs_monomial_g1,
         g2 |-> into_affine(g2),
         tau_g2 |-> into_affine(G1Mul(g2, t)),
         c_eval |-> c_eval_of(two_n(config)),
         config |-> config]

SetupAction ==
    /\ pc = "start"
    /\ \E log_n \in 0 .. MaxLogN :
          LET config == [log_n |-> log_n]
          IN  IF DomainSupported(two_n(config))
              THEN /\ setup' = SetupNew(config)
                   /\ tau' = FrRand(test_rng)
                   /\ drawn_at' = [tau |-> test_rng,
                                   c_eval |-> [i \in 1 .. two_n(config) |-> CEvalState(i)]]
                   /\ pc' = "setup"
              ELSE \* Radix2EvaluationDomain::new(two_n).unwrap() panics
                   /\ pc' = "setup_panic_domain"
                   /\ UNCHANGED <<setup, tau, drawn_at>>
    /\ UNCHANGED <<fr, rng, commitment, evals, eval_point, opening, submitted, result, pw, pv, fj, mm>>

-----------------------------------------------------------------------------
(* Prover::prove *)

Hadamard(c, f) ==
    LET m == IF Len(c) <= Len(f) THEN Len(c) ELSE Len(f)
    IN  [i \in 1 .. m |-> FrMul(c[i], f[i])]

\* Mutant of ProveWith: the commitment is taken over the transformed hashes,
\* without the Hadamard product with c_eval.
ProveWith_CommitHashes(s, x_values, hash) ==
    LET f_values == [i \in 1 .. Len(x_values) |-> hash[x_values[i]]]
        f_2n_eval == fft_in_place(Resize(f_values, two_n(s.config)), DomainSize(two_n(s.config)))
        hadamard_product == Hadamard(s.c_eval, f_2n_eval)
        srs_lagrange_affine == [i \in 1 .. Len(s.srs_lagrange_g1) |-> into_affine(s.srs_lagrange_g1[i])]
        c == efficient_msm(srs_lagrange_affine, f_2n_eval)
    IN  [commitment |-> IF IsErr(c) THEN <<>> ELSE <<into_affine(unwrap(c))>>,
         evals |-> hadamard_product,
         f_values |-> f_values]

\* x_values are the first n draws of a fresh test_rng(); hash is the map
\* x |-> Fr::from_be_bytes_mod_order(Sha256(serialize(x))).
ProveWith(s, x_values, hash) ==
    LET f_values == [i \in 1 .. Len(x_values) |-> hash[x_values[i]]]
        f_2n_eval == fft_in_place(Resize(f_values, two_n(s.config)), DomainSize(two_n(s.config)))
        hadamard_product == Hadamard(s.c_eval, f_2n_eval)
        srs_lagrange_affine == [i \in 1 .. Len(s.srs_lagrange_g1) |-> into_affine(s.srs_lagrange_g1[i])]
        c == efficient_msm(srs_lagrange_affine, hadamard_product)
    IN  [commitment |-> IF IsErr(c) THEN <<>> ELSE <<into_affine(unwrap(c))>>,
         evals |-> hadamard_product,
         f_values |-> f_values]

ProveAction ==
    /\ pc = "setup"
    /\ \E later \in [2 .. n(setup.config) -> FrEl] :
          LET x_values == [i \in 1 .. n(setup.config) |-> IF i = 1 THEN FrRand(test_rng) ELSE later[i]]
          IN  \E hash \in [{ x_values[i] : i \in 1 .. Len(x_values) } -> FrEl] :
                 LET r == ProveWith(setup, x_values, hash)
                 IN  IF ~DomainSupported(two_n(setup.config)) THEN
                          /\ pc' = "panic_domain"
                          /\ UNCHANGED <<commitment, evals, pv>>
                     ELSE IF IsErr(r.commitment) THEN
                          /\ pc' = "panic_msm"
                          /\ UNCHANGED <<commitment, evals, pv>>
                     ELSE /\ pc' = "proved"
                          /\ commitment' = unwrap(r.commitment)
                          /\ evals' = r.evals
                          /\ pv' = [x_values |-> x_values, f_values |-> r.f_values]
    /\ UNCHANGED <<fr, rng, tau, drawn_at, setup, eval_point, opening, submitted, result, pw, fj, mm>>

-----------------------------------------------------------------------------
(* Prover::create_opening_proof *)

OpenPoly(polynomial_evals) ==
    from_coefficients_vec(ifft_in_place(polynomial_evals, DomainSize(Len(polynomial_evals))))

\* numerator = &poly - &DensePolynomial::from_coefficients_vec(vec![evaluation])
OpenNumerator(poly, evaluation) == PolySub(poly, from_coefficients_vec(<<evaluation>>))

\* Mutant of OpenDenominator: x + z instead of x - z.
OpenDenominator_Plus(point) == from_coefficients_vec(<<point, FrOne>>)

OpenDenominator(point) == from_coefficients_vec(<<FrNeg(point), FrOne>>)

\* The quotient the call computes from its arguments.
OpenQuotient(polynomial_evals, point) ==
    LET poly == OpenPoly(polynomial_evals)
    IN  PolyDiv(OpenNumerator(poly, evaluate(poly, point)), OpenDenominator(point))

\* The guard of the commitment to the quotient.
QuotientFits(quotient_coeffs, srs) == Len(quotient_coeffs) <= Len(srs)

\* Mutant of create_opening_proof: no degree guard, the quotient is committed
\* against as many coefficients as the SRS has elements.
create_opening_proof_Truncating(s, polynomial_evals, point) ==
    IF ~DomainSupported(Len(polynomial_evals)) THEN [status |-> "panic_domain"]
    ELSE LET poly == OpenPoly(polynomial_evals)
             evaluation == evaluate(poly, point)
             quotient_coeffs == PolyDiv(OpenNumerator(poly, evaluation), OpenDenominator(point))
             m == IF Len(quotient_coeffs) <= Len(s.srs_monomial_g1)
                  THEN Len(quotient_coeffs) ELSE Len(s.srs_monomial_g1)
             c == efficient_msm(SubSeq(s.srs_monomial_g1, 1, m), SubSeq(quotient_coeffs, 1, m))
         IN  [status |-> "ok",
              proof |-> [point |-> point,
                         evaluation |-> evaluation,
                         proof |-> into_affine(unwrap(c))]]

\* status is "ok" with the proof returned, or names the panic.
create_opening_proof(s, polynomial_evals, point) ==
    IF ~DomainSupported(Len(polynomial_evals)) THEN [status |-> "panic_domain"]
    ELSE LET poly == OpenPoly(polynomial_evals)
             evaluation == evaluate(poly, point)
             numerator == OpenNumerator(poly, evaluation)
             denominator == OpenDenominator(point)
             quotient_coeffs == PolyDiv(numerator, denominator)
         IN  IF QuotientFits(quotient_coeffs, s.srs_monomial_g1)
             THEN LET c == efficient_msm(SubSeq(s.srs_monomial_g1, 1, Len(quotient_coeffs)),
                                         quotient_coeffs)
                  IN  IF IsErr(c) THEN [status |-> "panic_msm"]
                      ELSE [status |-> "ok",
                            proof |-> [point |-> point,
                                       evaluation |-> evaluation,
                                       proof |-> into_affine(unwrap(c))]]
             ELSE [status |-> "panic_degree"]

\* The call returns its OpeningProof, or panics and returns nothing.
OpenCall ==
    LET r == create_opening_proof(setup, evals, eval_point')
    IN  IF r.status = "ok"
        THEN /\ opening' = r.proof
             /\ pc' = "opened"
        ELSE /\ pc' = r.status
             /\ UNCHANGED opening

\* The caller opens the evaluation vector prove() returned, at any point.
OpenAction ==
    /\ pc = "proved"
    /\ eval_point' \in FrEl
    /\ OpenCall
    /\ pv' = NoFrame
    /\ UNCHANGED <<fr, rng, tau, drawn_at, setup, commitment, evals, submitted, result, pw, fj, mm>>

-----------------------------------------------------------------------------
(* Verifier::verify_opening *)

\* Mutant of verify_opening: the left side is the commitment alone.
verify_opening_NoEvaluation(s, c, proof) ==
    LET right_g2 == G1Sub(into_group(s.tau_g2), G1Mul(s.g2, proof.point))
    IN  pairing(into_group(c), s.g2) = pairing(proof.proof, right_g2)

\* Mutant of verify_opening: the right side is tau*H alone.
verify_opening_NoPoint(s, c, proof) ==
    LET g1_gen == s.srs_monomial_g1[1]
        left == G1Sub(into_group(c), G1Mul(g1_gen, proof.evaluation))
    IN  pairing(left, s.g2) = pairing(proof.proof, into_group(s.tau_g2))

verify_opening(s, c, proof) ==
    LET g1_gen == s.srs_monomial_g1[1]
        left == G1Sub(into_group(c), G1Mul(g1_gen, proof.evaluation))
        right_g2 == G1Sub(into_group(s.tau_g2), G1Mul(s.g2, proof.point))
        pairing1 == pairing(left, s.g2)
        pairing2 == pairing(proof.proof, right_g2)
    IN  pairing1 = pairing2

\* The proofs a caller may hand to the verifier: the one it was given, or
\* that proof with one field replaced by a different value.
Tampered(p) ==
    { [p EXCEPT !.evaluation = v] : v \in FrEl \ {p.evaluation} }
        \cup { [p EXCEPT !.point = z] : z \in FrEl \ {p.point} }
        \cup { [p EXCEPT !.proof = g] : g \in G1El \ {p.proof} }

VerifyAction ==
    /\ pc = "opened"
    /\ \E p \in {opening} \cup Tampered(opening) :
          /\ submitted' = p
          /\ result' = verify_opening(setup, commitment, p)
    /\ pc' = "verified"
    /\ UNCHANGED <<fr, rng, tau, drawn_at, setup, commitment, evals, eval_point, opening, pw, pv, fj, mm>>

-----------------------------------------------------------------------------
(* The protocol run: Setup::new, prove, create_opening_proof, verify_opening *)

Init ==
    /\ fr = ProtocolField
    /\ rng \in [first : FrEl, g1 : G1El \ {G1Zero}, g2 : G1El \ {G1Zero}]
    /\ pc = "start"
    /\ tau = None /\ drawn_at = None /\ setup = None /\ commitment = None
    /\ evals = None /\ eval_point = None /\ opening = None /\ submitted = None /\ result = None
    /\ pw = NoFrame /\ pv = NoFrame /\ fj = NoFrame /\ mm = NoFrame

Next == SetupAction \/ ProveAction \/ OpenAction \/ VerifyAction

Spec == Init /\ [][Next]_vars

-----------------------------------------------------------------------------
(* create_opening_proof as a function of its arguments: any evaluation      *)
(* vector of up to MaxEvalsLen entries and any point, on a Setup of any     *)
(* supported size and any tau (g2, which the call does not read, is fixed,  *)
(* and g1 is one of two elements).                                          *)

RECURSIVE SeqsUpTo(_, _)
SeqsUpTo(S, k) == IF k = 0 THEN {<<>>} ELSE SeqsUpTo(S, k - 1) \cup [1 .. k -> S]

InitOpen ==
    /\ fr = ProtocolField
    /\ rng \in [first : FrEl, g1 : 1 .. 2, g2 : {1}]
    /\ pc = "open_call"
    /\ \E log_n \in 0 .. MaxLogN :
          /\ DomainSupported(two_n([log_n |-> log_n]))
          /\ setup = SetupNew([log_n |-> log_n])
          /\ drawn_at = [tau |-> test_rng,
                         c_eval |-> [i \in 1 .. two_n([log_n |-> log_n]) |-> CEvalState(i)]]
    /\ tau = FrRand(test_rng)
    /\ commitment = None
    /\ evals \in SeqsUpTo(FrEl, MaxEvalsLen)
    /\ eval_point = None
    /\ opening = None /\ submitted = None /\ result = None
    /\ pw = NoFrame /\ pv = NoFrame /\ fj = NoFrame /\ mm = NoFrame

OpenAnyAction ==
    /\ pc = "open_call"
    /\ eval_point' \in FrEl
    /\ OpenCall
    /\ UNCHANGED <<fr, rng, tau, drawn_at, setup, commitment, evals, submitted, result, pw, pv, fj, mm>>

NextOpen == OpenAnyAction

SpecOpen == InitOpen /\ [][NextOpen]_vars

-----------------------------------------------------------------------------
(* The parallel sections: par_iter().map(closure).collect() of rayon.       *)
(* The index range of the input is split into tasks over disjoint           *)
(* contiguous ranges, any task that has not started may split again, the    *)
(* workers run the tasks in any interleaving, each item is mapped by the    *)
(* section's closure and written to the output buffer at the slot of its    *)
(* index, and collect returns the buffer once every task has finished.      *)
(* writes counts the writes to each slot and order lists the indices in the *)
(* order their items finished (ghosts).                                     *)

MaxItems == 3

Sections == {"powers", "srs_monomial", "into_affine", "hash", "hadamard"}

\* The items a section's input is made of.
SectionItems(section) ==
    CASE section = "powers"       -> 0 .. (MaxItems - 1)
      [] section = "srs_monomial" -> FrEl
      [] section = "into_affine"  -> G1El
      [] section = "hash"         -> FrEl
      [] section = "hadamard"     -> {1, 2} \X {1, 3}

\* The inputs of a section: (0..count) is the range itself, the others are
\* vectors of items.
SectionInputs(section) ==
    IF section = "powers"
    THEN { [i \in 1 .. k |-> i - 1] : k \in 0 .. MaxItems }
    ELSE SeqsUpTo(SectionItems(section), MaxItems)

\* The closure of each section.
SectionMap(section, env, item) ==
    CASE section = "powers"       -> PowerAt(item, env.tau, <<FrOne>>)
      [] section = "srs_monomial" -> G1Mul(env.g1, item)
      [] section = "into_affine"  -> into_affine(item)
      [] section = "hash"         -> env.hash[item]
      [] section = "hadamard"     -> FrMul(item[1], item[2])

\* Mutant of FjSlot: the result is appended in the order the items finish.
FjSlot_CompletionOrder(f, index) == Len(f.order) + 1

\* The slot of the output buffer an item is written to: that of its index.
FjSlot(f, index) == index

FjDone(f) == \A t \in f.tasks : t.next > t.hi

\* A task that has not started hands the upper half of its range to a new task.
FjSplit ==
    /\ fj.pc = "run"
    /\ \E t \in fj.tasks :
          /\ t.next = t.lo /\ t.hi > t.lo
          /\ LET mid == (t.lo + t.hi) \div 2
             IN  fj' = [fj EXCEPT !.tasks = (fj.tasks \ {t})
                                     \cup {[lo |-> t.lo, hi |-> mid, next |-> t.lo],
                                           [lo |-> mid + 1, hi |-> t.hi, next |-> mid + 1]}]
    /\ UNCHANGED <<fr, rng, pc, tau, drawn_at, setup, commitment, evals, eval_point, opening, submitted, result,
                   pw, pv, mm>>

\* A worker maps the next item of one task and writes the result.
FjStep ==
    /\ fj.pc = "run"
    /\ \E t \in fj.tasks :
          /\ t.next <= t.hi
          /\ LET slot == FjSlot(fj, t.next)
                 v == SectionMap(fj.section, fj.env, fj.input[t.next])
             IN  fj' = [fj EXCEPT !.tasks = (fj.tasks \ {t}) \cup {[t EXCEPT !.next = t.next + 1]},
                                  !.out[slot] = v,
                                  !.writes[slot] = fj.writes[slot] + 1,
                                  !.order = Append(fj.order, t.next)]
    /\ UNCHANGED <<fr, rng, pc, tau, drawn_at, setup, commitment, evals, eval_point, opening, submitted, result,
                   pw, pv, mm>>

\* The join: every task has finished and collect returns the buffer.
FjJoin ==
    /\ fj.pc = "run"
    /\ FjDone(fj)
    /\ fj' = [fj EXCEPT !.pc = "joined"]
    /\ UNCHANGED <<fr, rng, pc, tau, drawn_at, setup, commitment, evals, eval_point, opening, submitted, result,
                   pw, pv, mm>>

InitForkJoin ==
    /\ fr = ProtocolField
    /\ rng = None
    /\ pc = "fork_join"
    /\ tau = None /\ drawn_at = None /\ setup = None /\ commitment = None
    /\ evals = None /\ eval_point = None /\ opening = None /\ submitted = None /\ result = None
    /\ pw = NoFrame /\ pv = NoFrame /\ mm = NoFrame
    /\ \E section \in Sections :
       \E input \in SectionInputs(section) :
       \E hash \in {[x \in FrEl |-> FrAdd(FrMul(x, x), 2)], [x \in FrEl |-> FrSub(3, x)]} :
          fj = [pc |-> "run",
                section |-> section,
                env |-> [tau |-> 2, g1 |-> 3, hash |-> hash],
                input |-> input,
                tasks |-> {[lo |-> 1, hi |-> Len(input), next |-> 1]},
                out |-> [i \in 1 .. Len(input) |-> 0],
                writes |-> [i \in 1 .. Len(input) |-> 0],
                order |-> <<>>]

NextForkJoin == FjSplit \/ FjStep \/ FjJoin

SpecForkJoin == InitForkJoin /\ [][NextForkJoin]_vars

-----------------------------------------------------------------------------
(* ModuloMachine (src/modulo-machine/src/lib.rs).  Integers are rug's       *)
(* arbitrary-precision Integer, so no operation wraps; the 256-bit prime of *)
(* P_STR is scaled down to a small prime.  The machine is the record        *)
(* [output, clk_prev]; mm holds it with ghosts: last describes the call     *)
(* that returned last (its arguments, what it returned, whether it assigned *)
(* x % p to output, the fields before the call, the clk of the tick call    *)
(* before it and the call before it), tick_seen the clk of the latest tick, *)
(* after_reset whether a tick has asserted reset and no tick with reset     *)
(* false and clk true has followed it yet, results what the latest          *)
(* process_batch returned.                                                  *)

P_STR == 3

MaxX == 4
MaxBatch == 2

\* The inputs x: negative, zero, below p, p, p + 1 and beyond.
XValues == (0 - MaxX) .. MaxX

\* x % &self.p on rug Integers rounds the quotient towards zero: the
\* remainder has the sign of x.
IntegerRem(x, m) == IF x >= 0 THEN x % m ELSE 0 - ((0 - x) % m)

\* Integer::significant_bits: the bits of the absolute value.
RECURSIVE BitsOf(_)
BitsOf(k) == IF k = 0 THEN 0 ELSE 1 + BitsOf(k \div 2)
significant_bits(x) == BitsOf(IF x >= 0 THEN x ELSE 0 - x)

\* ModuloMachine::new
new == [output |-> 0, clk_prev |-> FALSE]

\* Mutant of reset: the output is cleared and clk_prev is kept.
reset_KeepClk(m) == [m EXCEPT !.output = 0]

\* ModuloMachine::reset
reset(m) == [m EXCEPT !.output = 0, !.clk_prev = FALSE]

\* Mutant of tick: level-triggered, x is loaded whenever clk is high.
tick_LevelTriggered(m, clk, rst, x) ==
    IF rst THEN [m |-> reset(m), ret |-> 0, loaded |-> FALSE]
    ELSE LET loaded == clk
             m1 == IF loaded THEN [m EXCEPT !.output = IntegerRem(x, P_STR)] ELSE m
             m2 == [m1 EXCEPT !.clk_prev = clk]
         IN  [m |-> m2, ret |-> m2.output, loaded |-> loaded]

\* Mutant of tick: a tick that asserts reset records its clk.
tick_ClkThroughReset(m, clk, rst, x) ==
    IF rst THEN [m |-> [reset(m) EXCEPT !.clk_prev = clk], ret |-> 0, loaded |-> FALSE]
    ELSE LET loaded == clk /\ ~m.clk_prev
             m1 == IF loaded THEN [m EXCEPT !.output = IntegerRem(x, P_STR)] ELSE m
             m2 == [m1 EXCEPT !.clk_prev = clk]
         IN  [m |-> m2, ret |-> m2.output, loaded |-> loaded]

\* ModuloMachine::tick: the machine after the call, what the call returns,
\* and whether it assigned to output.
tick(m, clk, rst, x) ==
    IF rst THEN LET m0 == reset(m) IN [m |-> m0, ret |-> m0.output, loaded |-> FALSE]
    ELSE LET loaded == clk /\ ~m.clk_prev
             m1 == IF loaded THEN [m EXCEPT !.output = IntegerRem(x, P_STR)] ELSE m
             m2 == [m1 EXCEPT !.clk_prev = clk]
         IN  [m |-> m2, ret |-> m2.output, loaded |-> loaded]

\* ModuloMachine::validate_output_size, with the width scaled to that of P_STR.
validate_output_size(output) == significant_bits(output) <= significant_bits(P_STR)

Machine(s) == [output |-> s.output, clk_prev |-> s.clk_prev]

CallOf(s) == [op |-> s.last.op, clk |-> s.last.clk, reset |-> s.last.reset]

\* mm after tick(clk, rst, x).
MmTick(s, clk, rst, x) ==
    LET t == tick(Machine(s), clk, rst, x)
    IN  [s EXCEPT !.output = t.m.output,
                  !.clk_prev = t.m.clk_prev,
                  !.tick_seen = [has |-> TRUE, clk |-> clk],
                  !.after_reset = IF rst THEN TRUE ELSE IF clk THEN FALSE ELSE s.after_reset,
                  !.last = [op |-> "tick", clk |-> clk, reset |-> rst, x |-> x,
                            ret |-> t.ret, loaded |-> t.loaded,
                            output_before |-> s.output, clk_prev_before |-> s.clk_prev,
                            prev_tick |-> s.tick_seen, prev_call |-> CallOf(s),
                            after_reset_before |-> s.after_reset]]

\* process_batch: tick on every input in turn, the results pushed in order.
RECURSIVE BatchLoop(_, _, _)
BatchLoop(s, inputs, k) ==
    IF k > Len(inputs) THEN s
    ELSE LET s1 == MmTick(s, inputs[k][1], inputs[k][2], inputs[k][3])
         IN  BatchLoop([s1 EXCEPT !.results = Append(s1.results, s1.last.ret)], inputs, k + 1)

process_batch(s, inputs) == BatchLoop([s EXCEPT !.results = <<>>], inputs, 1)

\* The inputs of a batch.
BatchInputs == SeqsUpTo(BOOLEAN \X BOOLEAN \X {0 - 1}, MaxBatch)

TickAction ==
    /\ mm.pc = "machine"
    /\ \E clk \in BOOLEAN, rst \in BOOLEAN, x \in XValues : mm' = MmTick(mm, clk, rst, x)
    /\ UNCHANGED <<fr, rng, pc, tau, drawn_at, setup, commitment, evals, eval_point, opening, submitted, result,
                   pw, pv, fj>>

ResetAction ==
    /\ mm.pc = "machine"
    /\ LET m == reset(Machine(mm))
       IN  mm' = [mm EXCEPT !.output = m.output,
                            !.clk_prev = m.clk_prev,
                            !.last = [op |-> "reset", clk |-> FALSE, reset |-> FALSE, x |-> 0,
                                      ret |-> 0, loaded |-> FALSE,
                                      output_before |-> mm.output, clk_prev_before |-> mm.clk_prev,
                                      prev_tick |-> mm.tick_seen, prev_call |-> CallOf(mm),
                                      after_reset_before |-> mm.after_reset]]
    /\ UNCHANGED <<fr, rng, pc, tau, drawn_at, setup, commitment, evals, eval_point, opening, submitted, result,
                   pw, pv, fj>>

BatchAction ==
    /\ mm.pc = "machine"
    /\ \E inputs \in BatchInputs : mm' = process_batch(mm, inputs)
    /\ UNCHANGED <<fr, rng, pc, tau, drawn_at, setup, commitment, evals, eval_point, opening, submitted, result,
                   pw, pv, fj>>

InitMachine ==
    /\ fr = ProtocolField
    /\ rng = None
    /\ pc = "modulo_machine"
    /\ tau = None /\ drawn_at = None /\ setup = None /\ commitment = None
    /\ evals = None /\ eval_point = None /\ opening = None /\ submitted = None /\ result = None
    /\ pw = NoFrame /\ pv = NoFrame /\ fj = NoFrame
    /\ mm = [pc |-> "machine",
             output |-> new.output,
             clk_prev |-> new.clk_prev,
             tick_seen |-> [has |-> FALSE, clk |-> FALSE],
             after_reset |-> FALSE,
             last |-> [op |-> "new", clk |-> FALSE, reset |-> FALSE, x |-> 0,
                       ret |-> 0, loaded |-> FALSE,
                       output_before |-> 0, clk_prev_before |-> FALSE,
                       prev_tick |-> [has |-> FALSE, clk |-> FALSE],
                       prev_call |-> [op |-> "none", clk |-> FALSE, reset |-> FALSE],
                       after_reset_before |-> FALSE],
             results |-> <<>>]

NextMachine == TickAction \/ ResetAction \/ BatchAction

SpecMachine == InitMachine /\ [][NextMachine]_vars

-----------------------------------------------------------------------------
(* Properties *)

HasSetup == pc \in {"setup", "proved", "opened", "verified"}
HasEvals == pc \in {"proved", "opened", "verified"}
Verified == pc = "verified"
PanicAfterSetup == pc \in {"panic_domain", "panic_msm", "panic_degree"}

EvaluationTampered ==
    /\ submitted.evaluation # opening.evaluation
    /\ submitted.point = opening.point
    /\ submitted.proof = opening.proof

ProofTampered ==
    /\ submitted.proof # opening.proof
    /\ submitted.point = opening.point
    /\ submitted.evaluation = opening.evaluation

PointTampered ==
    /\ submitted.point # opening.point
    /\ submitted.evaluation = opening.evaluation
    /\ submitted.proof = opening.proof

\* C1: Completeness.  On a Setup, prove(), create_opening_proof on the
\* returned evaluations at any point (tau included) and verify_opening never
\* panic, and verifying the untouched proof returns true.
C1_Completeness ==
    /\ ~PanicAfterSetup
    /\ (Verified /\ submitted = opening) => result = TRUE

C1_Witness ==
    /\ Verified /\ submitted = opening /\ result = TRUE
    /\ opening.point = tau
    /\ opening.point \in DomainElements(two_n(setup.config))

\* C2: replacing the evaluation of a valid proof by any other field element
\* makes verify_opening return false (a boolean, no error), at every point.
C2_TamperedEvaluationRejected ==
    (Verified /\ EvaluationTampered) => result = FALSE

C2_Witness ==
    /\ Verified /\ EvaluationTampered /\ result = FALSE
    /\ opening.point = tau

\* C3: replacing the proof element of a valid proof by any other G1 element
\* makes verify_opening return false, at every point, the first draw of a
\* fresh test_rng() included.
C3_TamperedProofRejected ==
    (Verified /\ ProofTampered) => result = FALSE

\* What the code does at C3's failing input: the point is the first draw of a
\* fresh test_rng(), which is tau, and every proof element is accepted.
C3_AcceptedAtTestPoint ==
    (Verified /\ ProofTampered /\ opening.point = FrRand(test_rng)) => result = TRUE

\* C4 as stated: replacing the point of a valid proof by any other field
\* element makes verify_opening return false, for every committed polynomial,
\* constant polynomials included.
C4_TamperedPointRejected ==
    (Verified /\ PointTampered) => result = FALSE

\* C4 as amended: replacing the point of a valid proof by any other field
\* element makes verify_opening return false exactly when the proof element
\* is not the group identity; when the quotient commitment is the identity
\* (a constant polynomial, or a quotient that vanishes at tau) the proof with
\* the replaced point is accepted.
C4_TamperedPointRejectedUnlessIdentity ==
    (Verified /\ PointTampered) => (result = FALSE <=> opening.proof # G1Zero)

C4_Witness ==
    /\ Verified /\ PointTampered /\ result = FALSE
    /\ opening.proof # G1Zero

\* C5: the three vectors of a Setup have two_n = 2 * 2^log_n entries, and so
\* has the evaluation vector prove() returns.
C5_Lengths ==
    /\ HasSetup =>
          /\ Len(setup.srs_lagrange_g1) = two_n(setup.config)
          /\ Len(setup.srs_monomial_g1) = two_n(setup.config)
          /\ Len(setup.c_eval) = two_n(setup.config)
          /\ two_n(setup.config) = 2 * (2 ^ setup.config.log_n)
    /\ HasEvals => Len(evals) = two_n(setup.config)

C5_Witness ==
    /\ HasEvals
    /\ setup.config.log_n = 1
    /\ Len(evals) = 4 /\ Len(setup.c_eval) = 4

\* C7: no scalar stored in the returned Setup equals the secret tau; in
\* particular no entry of c_eval does.
C7_SecretConfined ==
    HasSetup => \A i \in 1 .. Len(setup.c_eval) : setup.c_eval[i] # tau

\* What the code does instead: every entry of c_eval is tau.
C7_EveryBlindIsTau ==
    HasSetup => \A i \in 1 .. Len(setup.c_eval) : setup.c_eval[i] = tau

\* C8: every entry of c_eval is drawn from a generator state that differs from
\* the state of every other entry and from the state tau is drawn from.
C8_IndependentDraws ==
    HasSetup =>
        \A i \in 1 .. Len(setup.c_eval) :
            /\ drawn_at.c_eval[i] # drawn_at.tau
            /\ \A j \in 1 .. Len(setup.c_eval) : j # i => drawn_at.c_eval[j] # drawn_at.c_eval[i]

PowDone == pw.pc = "done"

\* ceil(count / 256), computed apart from num_windows
CeilWindows(count) == (count \div WindowSize) + (IF count % WindowSize = 0 THEN 0 ELSE 1)

\* Entry 0 is one and every entry is the one before it multiplied by tau:
\* entry i is tau multiplied by itself i times.
PowersOfTau(powers, t) ==
    /\ Len(powers) >= 1 => powers[1] = FrOne
    /\ \A k \in 1 .. (Len(powers) - 1) : powers[k + 1] = FrMul(powers[k], t)

\* Every window index read by the parallel closure is inside window_bases,
\* whose length is ceil(count / 256).
WindowReadsInBounds ==
    pw.pc = "map" =>
        /\ Len(pw.window_bases) = CeilWindows(pw.count)
        /\ \A i \in 0 .. (pw.count - 1) : WindowIdx(i) < Len(pw.window_bases)

\* C6 as stated: compute_powers_parallel(tau, count) returns exactly count
\* elements, entry i being tau multiplied by itself i times, for every tau and
\* every count, on the sequential and on the windowed path, and the windowed
\* path reads window_bases inside its length.
C6_ExactlyCountPowers ==
    /\ PowDone => (Len(pw.powers) = pw.count /\ PowersOfTau(pw.powers, pw.tau))
    /\ WindowReadsInBounds

\* C6 as amended: the same for every count >= 1; for count = 0 the result is
\* the single element one.
C6_PowersForPositiveCount ==
    /\ (PowDone /\ pw.count >= 1) => (Len(pw.powers) = pw.count /\ PowersOfTau(pw.powers, pw.tau))
    /\ (PowDone /\ pw.count = 0) => pw.powers = <<FrOne>>
    /\ WindowReadsInBounds

C6_Witness ==
    /\ PowDone
    /\ pw.count > SeqThreshold
    /\ pw.count % WindowSize # 0
    /\ pw.tau_window \notin {FrZero, FrOne}
    /\ Len(pw.powers) = pw.count

OpenReturned == pc = "opened"
OpenCalled == pc \in {"opened", "panic_domain", "panic_msm", "panic_degree"}

\* The commitment to all the coefficients of q under the monomial SRS.
FullCommitment(srs, q) == SumSeq([i \in 1 .. Len(q) |-> G1Mul(srs[i], q[i])])

\* C9: when the quotient has more coefficients than srs_monomial_g1 has
\* elements the call fails and returns no proof; a returned proof commits to
\* every coefficient of the quotient; with evals of length two_n the quotient
\* has at most two_n - 1 coefficients and the call returns.
C9_DegreeGuard ==
    (OpenCalled /\ DomainSupported(Len(evals))) =>
        LET q == OpenQuotient(evals, eval_point)
            srs == setup.srs_monomial_g1
        IN  /\ Len(q) > Len(srs) => pc = "panic_degree"
            /\ OpenReturned =>
                  /\ Len(q) <= Len(srs)
                  /\ opening.proof = FullCommitment(srs, q)
            /\ Len(evals) = two_n(setup.config) =>
                  /\ Len(q) <= two_n(setup.config) - 1
                  /\ OpenReturned

C9_Witness ==
    /\ pc = "panic_degree"
    /\ Len(evals) > two_n(setup.config)
    /\ Len(OpenQuotient(evals, eval_point)) > Len(setup.srs_monomial_g1)

\* C10: the quotient Q of create_opening_proof satisfies
\* P(x) - v = (x - z) * Q(x) with zero remainder, where P is the inverse
\* transform of evals and v = P(z) is the evaluation of the returned proof;
\* no proof is returned with a nonzero remainder dropped.
C10_ExactDivision ==
    (OpenCalled /\ DomainSupported(Len(evals))) =>
        LET P == OpenPoly(evals)
            v == evaluate(P, eval_point)
            qr == divide_with_q_and_r(OpenNumerator(P, v), OpenDenominator(eval_point))
            Q == PolyDiv(OpenNumerator(P, v), OpenDenominator(eval_point))
        IN  /\ qr.r = <<>>
            /\ PolyMul(<<FrNeg(eval_point), FrOne>>, Q) = PolySub(P, from_coefficients_vec(<<v>>))
            /\ OpenReturned => (opening.evaluation = v /\ opening.point = eval_point)

C10_Witness ==
    /\ OpenReturned
    /\ Len(OpenQuotient(evals, eval_point)) >= 2
    /\ opening.evaluation # 0
    /\ eval_point # 0

-----------------------------------------------------------------------------
(* Non-degeneracy of the commitment *)

Proved == pc = "proved"

\* Every witness entry x_i and every hashed entry f_i is nonzero.
WitnessNonzero ==
    /\ Proved
    /\ \A i \in 1 .. Len(pv.x_values) : pv.x_values[i] # FrZero
    /\ \A i \in 1 .. Len(pv.f_values) : pv.f_values[i] # FrZero

-----------------------------------------------------------------------------
(* Order-preserving fork-join *)

FjJoined == fj.pc = "joined"

\* C12: in every parallel section, under every interleaving of the workers,
\* the collected output has the input's length and output[i] is the closure
\* applied to input[i]; no output slot is written twice, and the tasks own
\* disjoint ranges.
C12_OrderPreserved ==
    /\ FjJoined =>
          /\ Len(fj.out) = Len(fj.input)
          /\ \A i \in 1 .. Len(fj.input) :
                /\ fj.out[i] = SectionMap(fj.section, fj.env, fj.input[i])
                /\ fj.writes[i] = 1
    /\ fj.pc = "run" =>
          /\ \A i \in 1 .. Len(fj.input) : fj.writes[i] <= 1
          /\ \A t1, t2 \in fj.tasks : t1 # t2 => (t1.hi < t2.lo \/ t2.hi < t1.lo)

\* Three tasks ran interleaved and the last item finished first.
C12_Witness ==
    /\ FjJoined
    /\ Len(fj.input) = 3
    /\ Cardinality(fj.tasks) = 3
    /\ fj.order = <<3, 1, 2>>
    /\ fj.section = "hadamard"
    /\ fj.out[1] # fj.out[3]

-----------------------------------------------------------------------------
(* Lagrange basis *)

RECURSIVE ProdSeq(_)
ProdSeq(s) == IF s = <<>> THEN FrOne ELSE FrMul(Head(s), ProdSeq(Tail(s)))

\* L_i(x) over the domain of the given size, i counted from 0: the polynomial
\* that is one at w^i and zero at every other domain element.
LagrangeBasisAt(i, size, x) ==
    LET w == GroupGen(size)
        wi == FrPow(w, i)
    IN  ProdSeq([k \in 1 .. size |->
                   IF k - 1 = i THEN FrOne
                   ELSE FrMul(FrSub(x, FrPow(w, k - 1)),
                              FrInv(FrSub(wi, FrPow(w, k - 1))))])

\* Setup::new has just returned; the Setup is not written again afterwards.
SetupReturned == pc = "setup"

\* C17: for every evaluation vector e of length two_n the MSM of
\* srs_lagrange_g1 with e equals the MSM of srs_monomial_g1 with the inverse
\* transform of e; srs_lagrange_g1[i] is g1 * L_i(tau); and the commitment
\* prove() returns is g1 * P(tau) for the polynomial P that
\* create_opening_proof recovers from the returned evaluations.
C17_LagrangeBasisChange ==
    /\ SetupReturned =>
          LET size == two_n(setup.config)
          IN  /\ \A i \in 1 .. size :
                    setup.srs_lagrange_g1[i] = G1Mul(rng.g1, LagrangeBasisAt(i - 1, size, tau))
              /\ \A e \in [1 .. size -> FrEl] :
                    /\ ~IsErr(msm(setup.srs_lagrange_g1, e))
                    /\ msm(setup.srs_lagrange_g1, e)
                          = msm(setup.srs_monomial_g1, ifft_in_place(e, DomainSize(size)))
    /\ HasEvals => commitment = G1Mul(rng.g1, evaluate(OpenPoly(evals), tau))

\* A tau outside the domain (no L_i(tau) is zero), bases that differ between
\* the two SRS vectors and a commitment that is not the identity.
C17_Witness ==
    /\ Proved
    /\ two_n(setup.config) = 2
    /\ tau \notin DomainElements(2) /\ tau # FrZero
    /\ \A i \in 1 .. 2 : setup.srs_lagrange_g1[i] # G1Zero
    /\ setup.srs_lagrange_g1 # setup.srs_monomial_g1
    /\ commitment # G1Zero
    /\ commitment = unwrap(msm(setup.srs_monomial_g1, ifft_in_place(evals, 2)))
    /\ commitment = unwrap(msm(setup.srs_lagrange_g1, evals))

-----------------------------------------------------------------------------
(* Modulo machine *)

\* x mod m: the residue in 0 .. m - 1.
Mod(x, m) == ((x % m) + m) % m

LastTick == mm.pc = "machine" /\ mm.last.op = "tick"

\* The tick that returned last had reset false, clk true and found the
\* stored previous clock false.
RisingEdge == LastTick /\ ~mm.last.reset /\ mm.last.clk /\ ~mm.last.clk_prev_before

\* C13: on a tick with reset false, clk true and the stored previous clock
\* false, output becomes x mod P and tick returns that value.
C13_RisingEdge ==
    RisingEdge => (mm.output = Mod(mm.last.x, P_STR) /\ mm.last.ret = Mod(mm.last.x, P_STR))

\* What the code does on a rising edge for x >= 0: x below P is returned
\* unchanged, P gives 0 and P + 1 gives 1.
C13_RisingEdgeNonNegative ==
    (RisingEdge /\ mm.last.x >= 0) =>
        /\ mm.output = Mod(mm.last.x, P_STR) /\ mm.last.ret = mm.output
        /\ mm.last.x < P_STR => mm.last.ret = mm.last.x
        /\ mm.last.x = P_STR => mm.last.ret = 0
        /\ mm.last.x = P_STR + 1 => mm.last.ret = 1

\* C14: after any sequence of tick, process_batch and reset calls with
\* arbitrary integer inputs, 0 <= output < P and the output fits the width
\* of P.
C14_OutputRange ==
    mm.pc = "machine" =>
        /\ 0 <= mm.output /\ mm.output < P_STR
        /\ validate_output_size(mm.output)
        /\ \A i \in 1 .. Len(mm.results) : 0 <= mm.results[i] /\ mm.results[i] < P_STR

\* C15: a tick with reset true sets output to 0 and returns 0 whatever clk
\* and x are, and the first following tick with reset false and clk true
\* loads its input.
C15_ResetPriority ==
    /\ (LastTick /\ mm.last.reset) =>
          (mm.output = 0 /\ mm.last.ret = 0 /\ ~mm.last.loaded)
    /\ (LastTick /\ ~mm.last.reset /\ mm.last.clk /\ mm.last.after_reset_before) =>
          /\ mm.last.loaded
          /\ mm.output = IntegerRem(mm.last.x, P_STR)
          /\ mm.last.ret = mm.output

\* clk was high in the tick that asserted reset, and the next tick loads.
C15_Witness ==
    /\ LastTick /\ ~mm.last.reset /\ mm.last.clk /\ mm.last.after_reset_before
    /\ mm.last.prev_call = [op |-> "tick", clk |-> TRUE, reset |-> TRUE]
    /\ mm.last.x = P_STR + 1
    /\ mm.output = 1

\* C16: a tick with reset false that is not a rising edge (clk false, or clk
\* true with the stored previous clock true) leaves output unchanged and
\* returns the old output, whatever x is.
C16_Hold ==
    (LastTick /\ ~mm.last.reset /\ ~(mm.last.clk /\ ~mm.last.clk_prev_before)) =>
        /\ mm.output = mm.last.output_before
        /\ mm.last.ret = mm.last.output_before
        /\ ~mm.last.loaded

C16_Witness ==
    /\ LastTick /\ ~mm.last.reset
    /\ mm.last.clk /\ mm.last.clk_prev_before
    /\ mm.last.output_before = 2
    /\ mm.last.x = 1
    /\ mm.output = 2 /\ mm.last.ret = 2

\* C18 as stated: a tick with reset false updates output only if its clk is
\* true and the clk passed to the immediately preceding tick call was false,
\* or there is no preceding tick.
C18_EdgeAcrossTicks ==
    (LastTick /\ ~mm.last.reset /\ mm.last.loaded) =>
        /\ mm.last.clk
        /\ (~mm.last.prev_tick.has \/ ~mm.last.prev_tick.clk)

\* The call before the last one was a tick with reset false and clk true.
PrecededByHighTick ==
    /\ mm.last.prev_call.op = "tick"
    /\ ~mm.last.prev_call.reset
    /\ mm.last.prev_call.clk

\* C18 as amended: a tick with reset false updates output exactly when its
\* clk is true and the call before it was not a tick with reset false and clk
\* true (it was a tick with clk false, a tick asserting reset, a reset() or
\* there is none); after clk is held true through a tick that asserts reset,
\* the next tick with reset false and clk true does load x.
C18_EdgeSinceLastCall ==
    (LastTick /\ ~mm.last.reset) =>
        (mm.last.loaded <=> (mm.last.clk /\ ~PrecededByHighTick))

C18_Witness ==
    /\ LastTick /\ ~mm.last.reset /\ mm.last.clk
    /\ mm.last.prev_call = [op |-> "tick", clk |-> TRUE, reset |-> TRUE]
    /\ mm.last.prev_tick = [has |-> TRUE, clk |-> TRUE]
    /\ mm.last.loaded
    /\ mm.last.x = 2 /\ mm.output = 2 /\ mm.last.output_before = 0

====
